---- MODULE Spec2Model ----
(***************************************************************************)
(* A model of app/app.py: the Flask voice-to-text application.             *)
(*                                                                         *)
(* Strings that the code inspects character by character (file names) are  *)
(* sequences of one-character strings.  A nullable SQL column is a         *)
(* sequence of length 0 (NULL) or 1 (the value).  The REAL 0.95 is kept in *)
(* hundredths.  Times are whole ticks of one clock, which is also the      *)
(* granularity of the store's CURRENT_TIMESTAMP.                           *)
(***************************************************************************)
EXTENDS Integers, Sequences, FiniteSets, TLC

\* ------------------------------------------------------------------ bounds
\* /upload requests received in one run, each handled by a thread of its own.
MaxUploads == 2
\* Ticks of the clock in one run.
MaxClock == 1
\* Longest file name given to allowed_file in SpecAllowed.
MaxLen == 5

\* ------------------------------------------------------- program constants
\* 'confidence': 0.95, in hundredths.
CONFIDENCE == 95
\* LIMIT 50 of the /history query.
HISTORY_LIMIT == 50

NULL == <<>>
Some(v) == <<v>>

\* ------------------------------------------------------------ file names
\* str.lower() on the characters the model uses.
Lower(c) ==
    CASE c = "A" -> "a"
      [] c = "C" -> "c"
      [] c = "V" -> "v"
      [] c = "W" -> "w"
      [] OTHER -> c

lower(s) == [i \in 1..Len(s) |-> Lower(s[i])]

ALLOWED_EXTENSIONS ==
    { <<"w", "a", "v">>, <<"m", "p", "3">>, <<"f", "l", "a", "c">>,
      <<"a", "i", "f", "f">>, <<"a", "a", "c">> }

\* str.rfind('.') scanning from position i down; 0 when there is none.
RECURSIVE rfind(_, _)
rfind(s, i) ==
    IF i = 0 THEN 0
    ELSE IF s[i] = "." THEN i
    ELSE rfind(s, i - 1)

\* The mutant of rsplit: split at the first '.', as str.split('.', 1) does.
RECURSIVE find(_, _)
find(s, i) ==
    IF i > Len(s) THEN 0
    ELSE IF s[i] = "." THEN i
    ELSE find(s, i + 1)

split_first(s) ==
    LET k == find(s, 1)
    IN  IF k = 0 THEN <<s>>
        ELSE <<SubSeq(s, 1, k - 1), SubSeq(s, k + 1, Len(s))>>

\* filename.rsplit('.', 1): at most one split, at the last '.'.
rsplit(s) ==
    LET k == rfind(s, Len(s))
    IN  IF k = 0 THEN <<s>>
        ELSE <<SubSeq(s, 1, k - 1), SubSeq(s, k + 1, Len(s))>>

\* '.' in filename
HasDot(s) == \E i \in 1..Len(s) : s[i] = "."

allowed_file(filename) ==
    HasDot(filename) /\ lower(rsplit(filename)[2]) \in ALLOWED_EXTENSIONS

\* werkzeug's secure_filename on the characters the model uses: path
\* separators become spaces, the words are joined by "_", characters outside
\* [A-Za-z0-9_.-] are dropped and leading and trailing "." and "_" stripped.
SepToSpace(s) == [i \in 1..Len(s) |-> IF s[i] = "/" THEN " " ELSE s[i]]

\* "_".join(s.split())
RECURSIVE JoinWords(_, _, _, _)
JoinWords(s, i, acc, gap) ==
    IF i > Len(s) THEN acc
    ELSE IF s[i] = " " THEN JoinWords(s, i + 1, acc, acc # <<>>)
    ELSE JoinWords(s, i + 1,
                   (IF gap THEN Append(acc, "_") ELSE acc) \o <<s[i]>>, FALSE)

SafeChars ==
    { "a", "b", "c", "t", "v", "w", "x", "A", "C", "V", "W", "_", ".", "-" }

RECURSIVE AsciiStrip(_)
AsciiStrip(s) ==
    IF s = <<>> THEN <<>>
    ELSE (IF Head(s) \in SafeChars THEN <<Head(s)>> ELSE <<>>)
         \o AsciiStrip(Tail(s))

RECURSIVE LStrip(_)
LStrip(s) ==
    IF s # <<>> /\ Head(s) \in {".", "_"} THEN LStrip(Tail(s)) ELSE s

RECURSIVE RStrip(_)
RStrip(s) ==
    IF s # <<>> /\ s[Len(s)] \in {".", "_"}
    THEN RStrip(SubSeq(s, 1, Len(s) - 1))
    ELSE s

secure_filename(s) ==
    RStrip(LStrip(AsciiStrip(JoinWords(SepToSpace(s), 1, <<>>, FALSE))))

\* The file names that /upload requests of the model carry.
FileNames ==
    { <<>>,
      <<"a", ".", "t", "x", "t">>,
      <<"w", "a", "v">>,
      <<"a", ".", "w", "a", "v">>,
      <<"/", "a", ".", "w", "a", "v">>,
      <<"b", ".", "W", "A", "V">> }

\* What request.files holds: no 'audio_file' part, or a part with a name.
Inputs ==
    { [part |-> FALSE, fname |-> <<>>] }
    \cup { [part |-> TRUE, fname |-> n] : n \in FileNames }

\* The paths under UPLOAD_FOLDER that an accepted upload can be saved to.
Paths == { secure_filename(n) : n \in { m \in FileNames : allowed_file(m) } }

Alphabet == { "a", "c", "w", "v", "A", "W", "." }

RECURSIVE SeqsUpTo(_)
SeqsUpTo(n) ==
    IF n = 0 THEN { <<>> }
    ELSE LET shorter == SeqsUpTo(n - 1)
         IN  shorter \cup { Append(s, c) : s \in shorter, c \in Alphabet }

\* ------------------------------------------------------------------ state
\* The requests, numbered in the order in which the server receives them.
Req == 1..MaxUploads

VARIABLES
    main,        \* position of the __main__ block: "init_db", then "run"
    tableExists, \* the transcriptions table exists in DATABASE_PATH
    rows,        \* the transcriptions table, in insertion order
    fs,          \* UPLOAD_FOLDER: path -> the request whose bytes it holds, 0: no file
    now,         \* the clock
    pc,          \* each request's position in upload_file: "new" before, "done" after
    inp,         \* its request.files
    filename,    \* upload_file's local filename (file_path is UPLOAD_FOLDER/filename)
    start_time,  \* transcribe_audio's local start_time
    audio_data,  \* transcribe_audio's local audio_data: the request whose bytes were read
    calls,       \* calls of recognize_google made by the current transcribe_audio
    answer,      \* what the last of them returned or raised, "none" before
    result,      \* upload_file's local result
    last,        \* the response that the last step returned, NoReply if none
    fnArg,       \* SpecAllowed: the argument of allowed_file
    fnRes        \* SpecAllowed: its result, NULL before the call

vars ==
    << main, tableExists, rows, fs, now, pc, inp, filename,
       start_time, audio_data, calls, answer, result, last, fnArg, fnRes >>

shared == << main, tableExists, rows, fs, now >>
locals == << filename, start_time, audio_data, calls, answer, result >>
pure == << fnArg, fnRes >>

NoInput == [part |-> FALSE, fname |-> <<>>]
NoResult == [none |-> TRUE]
NoReply == [route |-> "none"]

Init ==
    /\ main = "init_db"
    /\ tableExists = FALSE
    /\ rows = <<>>
    /\ fs = [p \in Paths |-> 0]
    /\ now = 0
    /\ pc = [r \in Req |-> "new"]
    /\ inp = [r \in Req |-> NoInput]
    /\ filename = [r \in Req |-> <<>>]
    /\ start_time = [r \in Req |-> 0]
    /\ audio_data = [r \in Req |-> 0]
    /\ calls = [r \in Req |-> 0]
    /\ answer = [r \in Req |-> "none"]
    /\ result = [r \in Req |-> NoResult]
    /\ last = NoReply
    /\ fnArg = <<>>
    /\ fnRes = NULL

\* ------------------------------------------------------------ the store
\* Lines 195-197: init_db() (CREATE TABLE IF NOT EXISTS), then app.run.
init_db ==
    /\ main = "init_db"
    /\ main' = "run"
    /\ tableExists' = TRUE
    /\ UNCHANGED << rows, fs, now, pc, inp, locals, last, pure >>

\* The clock advances.
Tick ==
    /\ now < MaxClock
    /\ now' = now + 1
    /\ last' = NoReply
    /\ UNCHANGED << main, tableExists, rows, fs, pc, inp,
                    locals, pure >>

\* A row as INSERT stores it: id by AUTOINCREMENT, created_at by the default
\* CURRENT_TIMESTAMP.  "by" is not a column: it records the inserting request.
NewRow(name, text, confidence, processing_time, by) ==
    [ id |-> Len(rows) + 1, filename |-> name, original_text |-> text,
      confidence |-> confidence, processing_time |-> processing_time,
      created_at |-> now, by |-> by ]

\* ------------------------------------------------------------ /upload
\* The response of request u, which carried in; saved: file.save returned,
\* having written the file under path.
Reply(u, in, saved, path, status, body) ==
    [ route |-> "/upload", uid |-> u, inp |-> in, saved |-> saved,
      filename |-> path, status |-> status, body |-> body ]

\* The handler returns: its locals are gone.
Finish(r, reply) ==
    /\ pc' = [pc EXCEPT ![r] = "done"]
    /\ inp' = [inp EXCEPT ![r] = NoInput]
    /\ filename' = [filename EXCEPT ![r] = <<>>]
    /\ start_time' = [start_time EXCEPT ![r] = 0]
    /\ audio_data' = [audio_data EXCEPT ![r] = 0]
    /\ calls' = [calls EXCEPT ![r] = 0]
    /\ answer' = [answer EXCEPT ![r] = "none"]
    /\ result' = [result EXCEPT ![r] = NoResult]
    /\ last' = reply

NO_FILE == [error |-> "No file selected"]
NOT_SUPPORTED == [error |-> "File type not supported"]

\* The mutant of Validation: the extension check is left out.
ValidationNoExtension(in) ==
    IF ~in.part THEN NO_FILE
    ELSE IF in.fname = <<>> THEN NO_FILE
    ELSE [ok |-> TRUE]

\* Lines 94-102: the 400 body that rejects request.files, [ok |-> TRUE] when
\* it is accepted.
Validation(in) ==
    IF ~in.part THEN NO_FILE
    ELSE IF in.fname = <<>> THEN NO_FILE
    ELSE IF ~allowed_file(in.fname) THEN NOT_SUPPORTED
    ELSE [ok |-> TRUE]

\* Lines 92-102: the server receives request r, the next one, and validates it.
upload_validate(r, in) ==
    /\ main = "run"
    /\ pc[r] = "new"
    /\ \A q \in 1..(r - 1) : pc[q] # "new"
    /\ IF Validation(in) # [ok |-> TRUE]
       THEN Finish(r, Reply(r, in, FALSE, <<>>, 400, Validation(in)))
       ELSE /\ pc' = [pc EXCEPT ![r] = "save"]
            /\ inp' = [inp EXCEPT ![r] = in]
            /\ last' = NoReply
            /\ UNCHANGED locals
    /\ UNCHANGED << shared, pure >>

\* Lines 106-108: filename = secure_filename(...); file.save(file_path).
\* open(file_path, "wb") truncates and the copy replaces whatever the path
\* held.  A failing save (OSError) leaves the path as it was when the open
\* failed and holding this request's partial bytes when the copy failed.
save_overwrite(path, r) == [fs EXCEPT ![path] = r]

\* The mutant of file_save: an existing file is kept (exclusive create).
save_keep_existing(path, r) ==
    IF fs[path] # 0 THEN fs ELSE [fs EXCEPT ![path] = r]

file_save(path, r) == save_overwrite(path, r)

SERVER_ERROR == [error |-> "Server error: e"]

upload_save(r) ==
    /\ pc[r] = "save"
    /\ LET name == secure_filename(inp[r].fname)
       IN  \/ /\ fs' = file_save(name, r)
              /\ filename' = [filename EXCEPT ![r] = name]
              /\ pc' = [pc EXCEPT ![r] = "transcribe"]
              /\ last' = NoReply
              /\ UNCHANGED << inp, start_time, audio_data, calls, answer, result >>
           \/ \E opened \in BOOLEAN :
                 /\ fs' = IF opened THEN file_save(name, r) ELSE fs
                 /\ Finish(r, Reply(r, inp[r], FALSE, name, 500,
                                    SERVER_ERROR))
    /\ UNCHANGED << main, tableExists, rows, now, pure >>

\* ---------------------------------------------------- transcribe_audio
Success(text, t) ==
    [ success |-> TRUE, text |-> text, confidence |-> CONFIDENCE,
      processing_time |-> t ]

Failure(error, t) ==
    [ success |-> FALSE, error |-> error, processing_time |-> t ]

\* What the backend recognises in the bytes of request a.
Transcript(a) == << "transcript", a >>

UNKNOWN_VALUE == << "Could not understand audio", 0 >>
REQUEST_ERROR == << "Could not request results; e", 0 >>
PROCESSING_ERROR == << "Error processing audio: e", 0 >>

\* Lines 48-54: start_time is taken and the file opened, calibrated on and
\* recorded.  A missing file, or bytes that AudioFile cannot decode, raise
\* into the outer except (lines 79-84).
transcribe_read(r) ==
    /\ pc[r] = "transcribe"
    /\ start_time' = [start_time EXCEPT ![r] = now]
    /\ calls' = [calls EXCEPT ![r] = 0]
    /\ answer' = [answer EXCEPT ![r] = "none"]
    /\ \/ /\ fs[filename[r]] # 0
          /\ audio_data' = [audio_data EXCEPT ![r] = fs[filename[r]]]
          /\ pc' = [pc EXCEPT ![r] = "recognize"]
          /\ UNCHANGED result
       \/ /\ result' = [result EXCEPT ![r] = Failure(PROCESSING_ERROR, 0)]
          /\ pc' = [pc EXCEPT ![r] = "insert"]
          /\ UNCHANGED audio_data
    /\ last' = NoReply
    /\ UNCHANGED << shared, inp, filename, pure >>

\* (datetime.now() - start_time).total_seconds()
Elapsed(r) == now - start_time[r]

\* The recognition backend's answers to one call.
Outcomes == { "text", "UnknownValueError", "RequestError", "Exception" }

\* The mutant of Recognized: UnknownValueError has no except clause of its
\* own and reaches the catch-all.
RecognizedNoUnknownValue(r, outcome) ==
    CASE outcome = "text" -> Success(Transcript(audio_data[r]), Elapsed(r))
      [] outcome = "RequestError" -> Failure(REQUEST_ERROR, Elapsed(r))
      [] OTHER -> Failure(PROCESSING_ERROR, 0)

\* The result of transcribe_audio after the backend answered (lines 57-84).
Recognized(r, outcome) ==
    CASE outcome = "text" -> Success(Transcript(audio_data[r]), Elapsed(r))
      [] outcome = "UnknownValueError" -> Failure(UNKNOWN_VALUE, Elapsed(r))
      [] outcome = "RequestError" -> Failure(REQUEST_ERROR, Elapsed(r))
      [] OTHER -> Failure(PROCESSING_ERROR, 0)

\* Lines 57-77: one call of recognize_google on audio_data.
transcribe_recognize(r) ==
    /\ pc[r] = "recognize"
    /\ calls' = [calls EXCEPT ![r] = calls[r] + 1]
    /\ \E outcome \in Outcomes :
          /\ answer' = [answer EXCEPT ![r] = outcome]
          /\ result' = [result EXCEPT ![r] = Recognized(r, outcome)]
    /\ pc' = [pc EXCEPT ![r] = "insert"]
    /\ last' = NoReply
    /\ UNCHANGED << shared, inp, filename, start_time,
                    audio_data, pure >>

\* ------------------------------------------------- lines 113-146
\* The row of lines 115-124 for result.
RowOf(r) ==
    IF result[r].success
    THEN NewRow(filename[r], result[r].text, Some(result[r].confidence),
                result[r].processing_time, r)
    ELSE NewRow(filename[r], result[r].error, NULL,
                result[r].processing_time, r)

\* Lines 114-125: the INSERT and its commit, or an sqlite3 error (no such
\* table, database is locked, disk full), on which the connection's context
\* manager rolls back and the except of line 145 answers 500.
\* The mutant of Insert: INSERT OR REPLACE on the file name.
InsertOrReplace(t, row) ==
    IF \E i \in 1..Len(t) : t[i].filename = row.filename
    THEN LET i == CHOOSE k \in 1..Len(t) : t[k].filename = row.filename
         IN  [t EXCEPT ![i] = [row EXCEPT !.id = t[i].id]]
    ELSE Append(t, row)

\* INSERT INTO transcriptions ... VALUES (...); conn.commit()
Insert(t, row) == Append(t, row)

upload_insert(r) ==
    /\ pc[r] = "insert"
    /\ \/ /\ tableExists
          /\ rows' = Insert(rows, RowOf(r))
          /\ pc' = [pc EXCEPT ![r] = "remove"]
          /\ last' = NoReply
          /\ UNCHANGED << inp, locals >>
       \/ /\ UNCHANGED rows
          /\ Finish(r, Reply(r, inp[r], TRUE, filename[r], 500,
                             SERVER_ERROR))
    /\ UNCHANGED << main, tableExists, fs, now, pure >>

\* The response of lines 130-143.
ResultResponse(r) ==
    IF result[r].success
    THEN Reply(r, inp[r], TRUE, filename[r], 200,
               [ success |-> TRUE, text |-> result[r].text,
                 confidence |-> result[r].confidence,
                 processing_time |-> result[r].processing_time,
                 filename |-> filename[r] ])
    ELSE Reply(r, inp[r], TRUE, filename[r], 400,
               [ success |-> FALSE, error |-> result[r].error,
                 processing_time |-> result[r].processing_time ])

\* Lines 128-146: os.remove(file_path), which raises FileNotFoundError into
\* the except of line 145 when the path holds no file, then the response.
upload_remove(r) ==
    /\ pc[r] = "remove"
    /\ IF fs[filename[r]] = 0
       THEN /\ UNCHANGED fs
            /\ Finish(r, Reply(r, inp[r], TRUE, filename[r], 500,
                               SERVER_ERROR))
       ELSE /\ fs' = [fs EXCEPT ![filename[r]] = 0]
            /\ Finish(r, ResultResponse(r))
    /\ UNCHANGED << main, tableExists, rows, now, pure >>

upload_file(r) ==
    \/ \E in \in Inputs : upload_validate(r, in)
    \/ upload_save(r)
    \/ transcribe_read(r)
    \/ transcribe_recognize(r)
    \/ upload_insert(r)
    \/ upload_remove(r)

\* ------------------------------------------------------------ /history
\* The columns that the SELECT of lines 155-156 names.
Columns(row) ==
    [ id |-> row.id, filename |-> row.filename,
      original_text |-> row.original_text, confidence |-> row.confidence,
      processing_time |-> row.processing_time, created_at |-> row.created_at ]

Min(a, b) == IF a < b THEN a ELSE b

\* ORDER BY created_at DESC: the orders of the table's rows that the clause
\* allows.  It names no second key, so rows of one created_at come in any
\* order.
Orderings(t) ==
    { p \in [1..Len(t) -> 1..Len(t)] :
        /\ \A i, j \in 1..Len(t) : i # j => p[i] # p[j]
        /\ \A i, j \in 1..Len(t) :
              i < j => t[p[i]].created_at >= t[p[j]].created_at }

\* ... LIMIT 50, each sqlite3.Row made a dict.
Select(t, p) == [i \in 1..Min(Len(t), HISTORY_LIMIT) |-> Columns(t[p[i]])]

ReadReply(route, status, body) ==
    [ route |-> route, status |-> status, body |-> body ]

\* The bodies of lines 165 and 184, by the exception caught.
STORE_ERROR == [error |-> "Database error: sqlite3.Error"]
TYPE_ERROR == [error |-> "Database error: TypeError"]

get_history ==
    /\ main = "run"
    /\ \/ /\ tableExists
          /\ \E p \in Orderings(rows) :
                last' = ReadReply("/history", 200, [history |-> Select(rows, p)])
       \/ last' = ReadReply("/history", 500, STORE_ERROR)
    /\ UNCHANGED << shared, pc, inp, locals, pure >>

\* -------------------------------------------------------------- /stats
RECURSIVE SumTimes(_)
SumTimes(t) ==
    IF t = <<>> THEN 0 ELSE Head(t).processing_time + SumTimes(Tail(t))

\* AVG(processing_time): NULL over no rows, else the quotient sum / count,
\* kept as the pair.
Avg(t) == IF t = <<>> THEN NULL ELSE Some(<< SumTimes(t), Len(t) >>)

\* COUNT(CASE WHEN confidence > 0 THEN 1 END): NULL > 0 is not true.
Positive(t) ==
    Cardinality({ i \in 1..Len(t) :
                    t[i].confidence # NULL /\ t[i].confidence[1] > 0 })

\* cursor.fetchone() of lines 172-179: with conn.row_factory = sqlite3.Row a
\* row that has keys, without it a plain tuple.
Fetchone(t, row_factory) ==
    [ keyed |-> row_factory,
      columns |-> [ total_transcriptions |-> Len(t),
                    avg_processing_time |-> Avg(t),
                    successful_transcriptions |-> Positive(t) ] ]

\* get_stats leaves conn.row_factory as sqlite3.connect made it (None).
STATS_ROW_FACTORY == FALSE

\* dict(row): a row that has keys becomes the dict of its columns; a tuple of
\* numbers raises TypeError, which the except of line 183 answers with 500.
StatsResponse(row) ==
    IF row.keyed
    THEN ReadReply("/stats", 200, row.columns)
    ELSE ReadReply("/stats", 500, TYPE_ERROR)

get_stats ==
    /\ main = "run"
    /\ \/ /\ tableExists
          /\ last' = StatsResponse(Fetchone(rows, STATS_ROW_FACTORY))
       \/ last' = ReadReply("/stats", 500, STORE_ERROR)
    /\ UNCHANGED << shared, pc, inp, locals, pure >>

\* ------------------------------------------------------------- /health
health_check ==
    /\ main = "run"
    /\ last' = ReadReply("/health", 200,
                         [ status |-> "healthy",
                           service |-> "voice-to-text-app",
                           timestamp |-> now ])
    /\ UNCHANGED << shared, pc, inp, locals, pure >>

\* ------------------------------------------------------ the specification
Next ==
    \/ init_db
    \/ Tick
    \/ \E r \in Req : upload_file(r)
    \/ get_history
    \/ get_stats
    \/ health_check

Spec == Init /\ [][Next]_vars

\* The /upload requests alone, all within one tick of the clock.
NextUpload ==
    \/ init_db
    \/ \E r \in Req : upload_file(r)

SpecUpload == Init /\ [][NextUpload]_vars

\* ------------------------------------- transcribe_audio on every file state
Accepted == { in \in Inputs : Validation(in) = [ok |-> TRUE] }

\* Every request is about to call transcribe_audio(file_path): its file was
\* saved, and since then kept, replaced by a later request's or removed.
InitTranscribe ==
    /\ main = "run"
    /\ tableExists = TRUE
    /\ rows = <<>>
    /\ now = 0
    /\ pc = [r \in Req |-> "transcribe"]
    /\ inp \in [Req -> Accepted]
    /\ filename = [r \in Req |-> secure_filename(inp[r].fname)]
    /\ fs \in [Paths -> {0} \cup Req]
    /\ \A p \in Paths : fs[p] # 0 => filename[fs[p]] = p
    /\ start_time = [r \in Req |-> 0]
    /\ audio_data = [r \in Req |-> 0]
    /\ calls = [r \in Req |-> 0]
    /\ answer = [r \in Req |-> "none"]
    /\ result = [r \in Req |-> NoResult]
    /\ last = NoReply
    /\ fnArg = <<>>
    /\ fnRes = NULL

NextTranscribe ==
    \/ Tick
    \/ \E r \in Req : transcribe_read(r)
    \/ \E r \in Req : transcribe_recognize(r)

SpecTranscribe == InitTranscribe /\ [][NextTranscribe]_vars

\* ---------------------------------------- allowed_file on every file name
InitAllowed ==
    /\ main = "init_db"
    /\ tableExists = FALSE
    /\ rows = <<>>
    /\ fs = [p \in Paths |-> 0]
    /\ now = 0
    /\ pc = [r \in Req |-> "new"]
    /\ inp = [r \in Req |-> NoInput]
    /\ filename = [r \in Req |-> <<>>]
    /\ start_time = [r \in Req |-> 0]
    /\ audio_data = [r \in Req |-> 0]
    /\ calls = [r \in Req |-> 0]
    /\ answer = [r \in Req |-> "none"]
    /\ result = [r \in Req |-> NoResult]
    /\ last = NoReply
    /\ fnArg \in SeqsUpTo(MaxLen)
    /\ fnRes = NULL

call_allowed_file ==
    /\ fnRes = NULL
    /\ fnRes' = Some(allowed_file(fnArg))
    /\ UNCHANGED << shared, pc, inp, locals, last, fnArg >>

NextAllowed == call_allowed_file

SpecAllowed == InitAllowed /\ [][NextAllowed]_vars

\* ================================================================ claims
\* The extension list and the acceptance rule as the specification states
\* them: the part after the last '.', lower-cased, is one of the five.
ListedExtensions ==
    { <<"w", "a", "v">>, <<"m", "p", "3">>, <<"f", "l", "a", "c">>,
      <<"a", "i", "f", "f">>, <<"a", "a", "c">> }

ExtensionListed(f) ==
    \E i \in 1..Len(f) :
        /\ f[i] = "."
        /\ \A j \in (i + 1)..Len(f) : f[j] # "."
        /\ [k \in 1..(Len(f) - i) |-> Lower(f[i + k])] \in ListedExtensions

\* A request passes validation: file part present, file name not empty,
\* extension listed.
Valid(in) == in.part /\ in.fname # <<>> /\ ExtensionListed(in.fname)

\* The rows that request u inserted.
RowsBy(u) == { i \in 1..Len(rows) : rows[i].by = u }

Uploaded == last.route = "/upload"

\* ------------------------------------------------------------------- C1
\* C1: every /upload request that passes validation and does not end in a 500
\* response has inserted exactly one row when it completes, whether the
\* transcription succeeded or failed; no request inserts more than one row;
\* and no step of the system (upload, /history, /stats, /health, init_db)
\* updates or deletes a row: the table only grows at its end.
C1_OneRowPerUpload ==
    /\ [](/\ (Uploaded /\ Valid(last.inp) /\ last.status # 500)
                => Cardinality(RowsBy(last.uid)) = 1
          /\ \A r \in Req : Cardinality(RowsBy(r)) <= 1)
    /\ [][/\ Len(rows') >= Len(rows)
          /\ SubSeq(rows', 1, Len(rows)) = rows]_vars

\* A failed transcription has been recorded as the second row of the table.
C1_Witness ==
    /\ Uploaded /\ Valid(last.inp) /\ last.status = 400
    /\ Len(rows) = 2
    /\ RowsBy(last.uid) = {2}

\* ------------------------------------------------------------------- C2
\* C2: a step that completes an /upload request which fails validation returns
\* 400 with "No file selected" when the file part is missing or its name is
\* empty and 400 with "File type not supported" when the extension is not
\* listed, and it leaves the table and the upload directory unchanged: the
\* request has written no file, called no backend and inserted no row.
C2_RejectedLeavesNoTrace ==
    [][(last'.route = "/upload" /\ ~Valid(last'.inp)) =>
          /\ last'.status = 400
          /\ last'.body = IF ~last'.inp.part \/ last'.inp.fname = <<>>
                          THEN [error |-> "No file selected"]
                          ELSE [error |-> "File type not supported"]
          /\ ~last'.saved
          /\ rows' = rows
          /\ fs' = fs
          /\ calls' = calls
          /\ RowsBy(last'.uid) = {}]_vars

\* A file of an extension that is not listed was rejected while the table held
\* a row and the directory a file.
C2_Witness ==
    /\ Uploaded /\ last.inp.part /\ last.inp.fname # <<>> /\ ~Valid(last.inp)
    /\ last.body = [error |-> "File type not supported"]
    /\ rows # <<>>
    /\ \E p \in Paths : fs[p] # 0

\* ------------------------------------------------------------------- C3
\* C3: the row that a completed /upload request inserted reflects its result
\* and so does its response: a row with confidence 0.95 and the transcript as
\* text goes with 200 and success = true; a row with NULL confidence, the
\* error string as text and processing_time >= 0 goes with 400 and the same
\* error string.
C3_RowMatchesResponse ==
    Uploaded =>
        \A i \in RowsBy(last.uid) :
            \/ /\ rows[i].confidence = Some(CONFIDENCE)
               /\ rows[i].original_text[1] = "transcript"
               /\ last.status = 200
               /\ last.body.success
               /\ last.body.text = rows[i].original_text
            \/ /\ rows[i].confidence = NULL
               /\ rows[i].original_text[1] # "transcript"
               /\ rows[i].processing_time >= 0
               /\ last.status = 400
               /\ last.body.error = rows[i].original_text

\* ------------------------------------------------------------------- C4
\* C4: when an /upload request whose file.save wrote the file completes, with
\* 200, 400 or 500, no file in the upload directory holds its bytes.
C4_FileDeleted ==
    (Uploaded /\ last.saved) => \A p \in Paths : fs[p] # last.uid

\* ------------------------------------------------------------------- C5
\* C5: a /history response holds at most 50 records, they are the most
\* recently created ones, and each record listed was created later than the
\* one listed after it, rows of one created_at included.
C5_HistoryNewestFirst ==
    (last.route = "/history" /\ last.status = 200) =>
        LET h == last.body.history
        IN  /\ Len(h) = Min(Len(rows), HISTORY_LIMIT)
            /\ \A i \in 1..Len(h) : h[i].id > Len(rows) - Len(h)
            /\ \A i \in 1..(Len(h) - 1) : h[i].id > h[i + 1].id

\* ------------------------------------------------------------------- C6
\* C6: a /stats response is the aggregate object whose total is the number of
\* rows that the uploads inserted (or 500 when the store fails), and the
\* request leaves the store unchanged.
C6_StatsTotal ==
    last.route = "/stats" =>
        \/ /\ last.status = 200
           /\ last.body.total_transcriptions = Len(rows)
        \/ /\ last.status = 500
           /\ last.body = STORE_ERROR

\* ------------------------------------------------------------------- C7
\* C7: allowed_file(filename) is true exactly when the name holds a '.' and
\* the part after its last '.', lower-cased, is one of wav, mp3, flac, aiff,
\* aac; it is false for names without '.' and names that end in '.'.
C7_AllowedFile ==
    fnRes # NULL =>
        /\ fnRes[1] = ExtensionListed(fnArg)
        /\ (\A i \in 1..Len(fnArg) : fnArg[i] # ".") => fnRes[1] = FALSE
        /\ (fnArg # <<>> /\ fnArg[Len(fnArg)] = ".") => fnRes[1] = FALSE

\* A name with two dots and an upper-case extension was accepted.
C7_Witness ==
    /\ fnRes = Some(TRUE)
    /\ Len(fnArg) = 5
    /\ fnArg[1] = "."
    /\ fnArg[2] = "."
    /\ fnArg[3] = "A"

\* ------------------------------------------------------------------- C8
\* C8: when transcribe_audio has returned, it has called the backend at most
\* once; text from the backend gives a success with confidence 0.95,
\* UnknownValueError the error "Could not understand audio", RequestError the
\* error "Could not request results; <detail>", and a failure before the
\* backend was called the error "Error processing audio: <detail>" with
\* processing_time exactly 0.
C8_Transcribe ==
    \A r \in Req :
        pc[r] \in {"insert", "remove"} =>
            /\ calls[r] <= 1
            /\ "success" \in DOMAIN result[r]
            /\ answer[r] = "text" =>
                  /\ result[r].success
                  /\ result[r].confidence = CONFIDENCE
                  /\ result[r].text = << "transcript", audio_data[r] >>
            /\ answer[r] = "UnknownValueError" =>
                  /\ ~result[r].success
                  /\ result[r].error = << "Could not understand audio", 0 >>
            /\ answer[r] = "RequestError" =>
                  /\ ~result[r].success
                  /\ result[r].error = << "Could not request results; e", 0 >>
            /\ calls[r] = 0 =>
                  /\ answer[r] = "none"
                  /\ ~result[r].success
                  /\ result[r].error = << "Error processing audio: e", 0 >>
                  /\ result[r].processing_time = 0
            /\ (calls[r] = 0) = (answer[r] = "none")

\* transcribe_audio failed before the backend was called, after the clock had
\* advanced since the server started.
C8_Witness ==
    \E r \in Req :
        /\ pc[r] = "insert"
        /\ calls[r] = 0
        /\ ~result[r].success
        /\ now > 0

\* ------------------------------------------------------------------- C9
\* C9: file.save of a request replaces whatever the path held, the file of
\* another request in flight included (last writer wins): after it the path
\* holds this request's bytes.  The witness is the race that follows.
C9_LastWriterWins ==
    [][\A r \in Req :
          (pc[r] = "save" /\ pc'[r] = "transcribe") =>
              /\ filename'[r] \in Paths
              /\ fs'[filename'[r]] = r]_vars

\* The table holds a row of one request with the transcript of the other
\* request's audio, and a request found its file deleted by the other one.
C9_Witness ==
    /\ \E i \in 1..Len(rows) :
          /\ rows[i].original_text[1] = "transcript"
          /\ rows[i].original_text[2] # rows[i].by
    /\ Uploaded /\ last.saved /\ last.status = 500
    /\ RowsBy(last.uid) # {}

\* ------------------------------------------------------------------ C10
\* C10: an /upload request that responds 500 has inserted no row.
C10_ServerErrorInsertsNothing ==
    (Uploaded /\ last.status = 500) => RowsBy(last.uid) = {}

====
